---------------------------- MODULE Spec2Model ----------------------------
(***************************************************************************)
(* Model of the Bitso price bot (src/src/bot.py, src/src/config.py).       *)
(*                                                                         *)
(* Two threads run for the life of the process (bot.py 223-236): the       *)
(* dispatcher thread, which runs one command handler at a time, and the    *)
(* scheduler thread started at line 229, which runs enviar_actualizacion   *)
(* inside schedule.run_pending().  They share price_history and            *)
(* chats_activos without any lock.                                         *)
(*                                                                         *)
(* Modelling choices:                                                      *)
(*  - prices are integers in minor units; the percent change is computed   *)
(*    as an exact fraction (the code uses binary floats);                  *)
(*  - Optional values are sequences: <<>> is None, <<v>> is the value v;   *)
(*  - PriceInfo.last_update and the report's clock line are left out: no   *)
(*    branch of the code reads them;                                       *)
(*  - the report is the sequence of its instrument lines, each line the    *)
(*    fields the code prints;                                              *)
(*  - a thread switch can happen between any two statements, so a handler  *)
(*    is cut into steps at its accesses to shared state: a step is one     *)
(*    access together with the thread-local work around it;                *)
(*  - Spec is the bot configured with one instrument and both threads;     *)
(*    SpecTrend applies get_price_change_emoji to every snapshot of a      *)
(*    range of prices.                                                     *)
(***************************************************************************)
EXTENDS Integers, Sequences, FiniteSets

VARIABLES
    trading_pairs,  \* config.bitso.trading_pairs, fixed at startup
    price_history,  \* BitsoPriceClient.price_history: dict book -> PriceInfo
    chats_activos,  \* BitsoTelegramBot.chats_activos: set of chat ids
    th,             \* per thread: position and locals of format_price_message/get_price
    cmd,            \* the command the dispatcher thread is handling
    reply,          \* the last update.message.reply_text of a handler
    todo,           \* scheduler: chats of list(self.chats_activos) not yet sent to
    tick,           \* what the current (or last) tick observed and did
    elapsed,        \* minutes since the job was last scheduled
    running,        \* executions of enviar_actualizacion in progress
    t_info,         \* SpecTrend: the PriceInfo handed to get_price_change_emoji
    t_out           \* SpecTrend: what get_price_change_emoji returned

vars == <<trading_pairs, price_history, chats_activos, th, cmd, reply, todo,
          tick, elapsed, running, t_info, t_out>>

\* What no step of the bot changes: the configuration, and the pair of SpecTrend
fixed == <<trading_pairs, t_info, t_out>>

-----------------------------------------------------------------------------
(* Bounds and configuration *)

NumChats == 2

Chats == 1..NumChats

\* The first two instruments of config.bitso.trading_pairs
ConfiguredPairs == <<"btc_mxn", "eth_mxn">>

Books == {ConfiguredPairs[k] : k \in 1..Len(ConfiguredPairs)}

\* config.bitso.update_interval, in minutes (the default of UPDATE_INTERVAL)
update_interval == 1

\* the values the quote service answers with in the two-thread model
Prices == {0, 100}

None == <<>>

Some(v) == <<v>>

Threads == {"cmd", "sched"}

-----------------------------------------------------------------------------
(* Quote service responses: requests.get / raise_for_status / json / fields *)

FetchFailures == {"transport_error", "http_error", "bad_json", "not_success",
                  "bad_payload"}

Responses == [kind : {"ok"}, last : Prices] \cup [kind : FetchFailures, last : {0}]

\* Lines 36-41: the value of float(data['payload']['last']) when every step
\* up to it succeeds, None when one of them raises or data['success'] is false.
ParseResponse(r) == IF r.kind = "ok" THEN Some(r.last) ELSE None


-----------------------------------------------------------------------------
(* price_history as a dict *)

\* dict.get(book): the entry, or None
Get(h, book) == IF book \in DOMAIN h THEN Some(h[book]) ELSE None

\* h[book] = info
Put(h, book, info) ==
    [b \in DOMAIN h \cup {book} |-> IF b = book THEN info ELSE h[b]]

\* NewInfo with the wrong field of the old entry shifted
NewInfo_stale(current_price, last_info) ==
    [current_price |-> current_price,
     last_price    |-> IF last_info # None THEN last_info[1].last_price ELSE None]

\* Lines 47-51: PriceInfo(current_price, last_info.current_price if last_info else None)
NewInfo(current_price, last_info) ==
    [current_price |-> current_price,
     last_price    |-> IF last_info # None THEN Some(last_info[1].current_price)
                                            ELSE None]

\* StoredHistory replacing the whole dict by the one new entry
StoredHistory_only(h, book, new_info) == [b \in {book} |-> new_info]

\* StoredHistory keeping the entry an instrument already has
StoredHistory_keep(h, book, new_info) ==
    IF book \in DOMAIN h THEN h ELSE Put(h, book, new_info)

\* Line 54: self.price_history[book] = new_info
StoredHistory(h, book, new_info) == Put(h, book, new_info)

\* FailedHistory forgetting the entry of the instrument that failed
FailedHistory_forget(h, book) == [b \in DOMAIN h \ {book} |-> h[b]]

\* Lines 57-63: a failed call logs and returns None; price_history is not written
FailedHistory(h, book) == h

-----------------------------------------------------------------------------
(* get_price_change_emoji, lines 91-121 *)

Abs(x) == IF x < 0 THEN -x ELSE x

\* change = (current - last) / last * 100 as the fraction ChangeNum / ChangeDen,
\* ChangeDen > 0; last is not 0 here (line 98 returns before the division)
ChangeNum(cur, last) == IF last < 0 THEN -(100 * (cur - last)) ELSE 100 * (cur - last)

ChangeDen(last) == Abs(last)

\* round(|change| * 100), ties to even: the digits of the .2f conversion
Hundredths(num, den) ==
    LET n == 100 * Abs(num)
        q == n \div den
        r == n % den
    IN  IF 2 * r > den \/ (2 * r = den /\ q % 2 = 1) THEN q + 1 ELSE q

\* f"({change:+.2f}%)" as <<sign, integer part, two decimals>>
FormatSigned(num, den) ==
    LET h == Hundredths(num, den)
    IN  <<IF num < 0 THEN "-" ELSE "+", h \div 100, h % 100>>

\* f"({change:.2f}%)": no sign for a value that is not negative
FormatPlain(num, den) ==
    LET h == Hundredths(num, den)
    IN  <<IF num < 0 THEN "-" ELSE "", h \div 100, h % 100>>

\* IsUnchanged for an exactly equal price only
IsUnchanged_equal(num, den) == num = 0

\* Line 104: abs(change) < 0.01
IsUnchanged(num, den) == 100 * Abs(num) < den

\* Line 110: abs(change) < 0.1
IsSlight(num, den) == 10 * Abs(num) < den

\* IsStrongUp with the boundary on the strong side
IsStrongUp_inclusive(num, den) == num >= 5 * den

\* Line 113: change > 5
IsStrongUp(num, den) == num > 5 * den

\* Line 118: change < -5
IsStrongDown(num, den) == num < -(5 * den)

\* Line 98: not price_info.last_price is true of None and of 0.0
NoLastPrice(info) == info.last_price = None \/ info.last_price[1] = 0

\* The tuple (emoji, change text, trend emoji); "" and <<>> are the empty strings
get_price_change_emoji(price_info) ==
    IF price_info = None \/ NoLastPrice(price_info[1])
    THEN [emoji |-> "new", text |-> <<>>, trend |-> ""]
    ELSE LET info  == price_info[1]
             num   == ChangeNum(info.current_price, info.last_price[1])
             den   == ChangeDen(info.last_price[1])
             trend == IF num > 0 THEN "chart_up" ELSE "chart_down"
         IN  IF IsUnchanged(num, den)
             THEN [emoji |-> "flat", text |-> <<"", 0, 0>>, trend |-> ""]
             ELSE IF IsSlight(num, den)
             THEN [emoji |-> "flat", text |-> FormatSigned(num, den), trend |-> trend]
             ELSE IF num > 0
             THEN IF IsStrongUp(num, den)
                  THEN [emoji |-> "up_strong", text |-> FormatSigned(num, den),
                        trend |-> trend]
                  ELSE [emoji |-> "up", text |-> FormatSigned(num, den),
                        trend |-> trend]
             ELSE IF IsStrongDown(num, den)
                  THEN [emoji |-> "down_strong", text |-> FormatPlain(num, den),
                        trend |-> trend]
                  ELSE [emoji |-> "down", text |-> FormatPlain(num, den),
                        trend |-> trend]

-----------------------------------------------------------------------------
(* format_price_message, lines 123-162 *)

\* ReportLine showing the previous price of the snapshot when there is one
ReportLine_previous(pair, price_info) ==
    IF price_info = None
    THEN [pair |-> pair, body |-> None]
    ELSE LET c == get_price_change_emoji(price_info)
             p == IF price_info[1].last_price = None
                  THEN price_info[1].current_price
                  ELSE price_info[1].last_price[1]
         IN  [pair |-> pair,
              body |-> Some([price |-> p, emoji |-> c.emoji,
                             trend |-> c.trend, text |-> c.text])]

\* ReportLine falling back on the stored snapshot when the fetch failed
ReportLine_stale(pair, price_info) ==
    LET shown == IF price_info = None /\ pair \in DOMAIN price_history
                 THEN Some(price_history[pair])
                 ELSE price_info
    IN  IF shown = None
        THEN [pair |-> pair, body |-> None]
        ELSE LET c == get_price_change_emoji(shown)
             IN  [pair |-> pair,
                  body |-> Some([price |-> shown[1].current_price,
                                 emoji |-> c.emoji,
                                 trend |-> c.trend,
                                 text  |-> c.text])]

\* Lines 142-159: the report line of one instrument. body is None for the
\* "No disponible" line, else the price and the three parts of the change.
ReportLine(pair, price_info) ==
    IF price_info = None
    THEN [pair |-> pair, body |-> None]
    ELSE LET c == get_price_change_emoji(price_info)
         IN  [pair |-> pair,
              body |-> Some([price |-> price_info[1].current_price,
                             emoji |-> c.emoji,
                             trend |-> c.trend,
                             text  |-> c.text])]

IdleLocals == [pc |-> "idle", i |-> 0, mensaje |-> <<>>, current_price |-> 0,
               last_info |-> None]

\* Line 138-140: mensaje = header; the loop starts at the first pair
StartFormat == [IdleLocals EXCEPT !.pc = "request", !.i = 1]

\* NextPair with a failed fetch propagating out of the loop: the thread stops
NextPair_crash(l, line) ==
    [pc            |-> IF line.body = None THEN "crashed"
                       ELSE IF l.i < Len(trading_pairs) THEN "request" ELSE "formatted",
     i             |-> IF l.i < Len(trading_pairs) THEN l.i + 1 ELSE 0,
     mensaje       |-> Append(l.mensaje, line),
     current_price |-> 0,
     last_info     |-> None]

\* The end of one loop iteration: the line is added, and the loop moves to the
\* next pair or (lines 161-162) returns the report
NextPair(l, line) ==
    [pc            |-> IF l.i < Len(trading_pairs) THEN "request" ELSE "formatted",
     i             |-> IF l.i < Len(trading_pairs) THEN l.i + 1 ELSE 0,
     mensaje       |-> Append(l.mensaje, line),
     current_price |-> 0,
     last_info     |-> None]

CurrentBook(t) == trading_pairs[th[t].i]

\* One more quote fetch of the tick in progress (the command path is not counted)
CountFetch(t) == IF t = "sched" THEN [tick EXCEPT !.fetches = @ + 1] ELSE tick

\* get_price lines 36-44 for the pair the loop of thread t is at: the request
\* and its parsing, then on success the read of the stored entry; on failure
\* get_price returns None and the loop adds the unavailable line (156-159).
Request(t) ==
    /\ th[t].pc = "request"
    /\ \E r \in Responses :
         LET book   == CurrentBook(t)
             parsed == ParseResponse(r)
         IN  IF parsed = None
             THEN /\ price_history' = FailedHistory(price_history, book)
                  /\ th' = [th EXCEPT ![t] = NextPair(@, ReportLine(book, None))]
             ELSE /\ price_history' = price_history
                  /\ th' = [th EXCEPT ![t] = [@ EXCEPT
                                !.pc = "store",
                                !.current_price = parsed[1],
                                !.last_info = Get(price_history, book)]]
    /\ tick' = CountFetch(t)
    /\ UNCHANGED <<fixed, chats_activos, cmd, reply, todo, elapsed, running>>

\* get_price lines 47-56 and the caller's lines 142-155: the new PriceInfo is
\* built from the locals, stored, returned and rendered
Store(t) ==
    /\ th[t].pc = "store"
    /\ LET book     == CurrentBook(t)
           new_info == NewInfo(th[t].current_price, th[t].last_info)
       IN  /\ price_history' = StoredHistory(price_history, book, new_info)
           /\ th' = [th EXCEPT ![t] = NextPair(@, ReportLine(book, Some(new_info)))]
    /\ UNCHANGED <<fixed, chats_activos, cmd, reply, todo, tick, elapsed, running>>

-----------------------------------------------------------------------------
(* Command handlers, lines 164-196. The dispatcher runs one handler at a time. *)

NoCmd == [name |-> "none", chat |-> 0]

NoReply == [chat |-> 0, text |-> "none"]

DispatcherIdle == cmd = NoCmd

\* Lines 164-166
cmd_start(chat) ==
    /\ DispatcherIdle
    /\ cmd' = [name |-> "start", chat |-> chat]
    /\ reply' = [chat |-> chat, text |-> "welcome"]
    /\ UNCHANGED <<fixed, price_history, chats_activos, th, todo, tick, elapsed,
                   running>>

\* cmd_precio subscribing the chat that asks
cmd_precio_subscribe(chat) ==
    /\ DispatcherIdle
    /\ cmd' = [name |-> "precio", chat |-> chat]
    /\ th' = [th EXCEPT !["cmd"] = StartFormat]
    /\ chats_activos' = chats_activos \cup {chat}
    /\ UNCHANGED <<fixed, price_history, reply, todo, tick, elapsed, running>>

\* Lines 168-170: /precio enters format_price_message
cmd_precio(chat) ==
    /\ DispatcherIdle
    /\ cmd' = [name |-> "precio", chat |-> chat]
    /\ th' = [th EXCEPT !["cmd"] = StartFormat]
    /\ UNCHANGED <<fixed, price_history, chats_activos, reply, todo, tick, elapsed,
                   running>>

\* Line 171: the report th["cmd"].mensaje goes to the requester
cmd_precio_reply ==
    /\ cmd.name = "precio"
    /\ th["cmd"].pc = "formatted"
    /\ reply' = [chat |-> cmd.chat, text |-> "precios"]
    /\ th' = [th EXCEPT !["cmd"].pc = "replied"]
    /\ UNCHANGED <<fixed, price_history, chats_activos, cmd, todo, tick, elapsed,
                   running>>

\* ActivarResult without the membership test
ActivarResult_untested(chats, chat_id) ==
    [chats |-> chats \cup {chat_id}, text |-> "activadas"]

\* Lines 177-185: the registry and the reply of /activar from chat_id
ActivarResult(chats, chat_id) ==
    IF chat_id \in chats
    THEN [chats |-> chats, text |-> "ya_activadas"]
    ELSE [chats |-> chats \cup {chat_id}, text |-> "activadas"]

\* DesactivarResult emptying the registry
DesactivarResult_clear(chats, chat_id) ==
    IF chat_id \notin chats
    THEN [chats |-> chats, text |-> "ya_desactivadas"]
    ELSE [chats |-> {}, text |-> "desactivadas"]

\* Lines 191-196: the registry and the reply of /desactivar from chat_id
DesactivarResult(chats, chat_id) ==
    IF chat_id \notin chats
    THEN [chats |-> chats, text |-> "ya_desactivadas"]
    ELSE [chats |-> chats \ {chat_id}, text |-> "desactivadas"]

\* Lines 173-185. The test and the add are one step: the only other writer,
\* the scheduler, can only discard, which commutes with both.
cmd_activar(chat) ==
    /\ DispatcherIdle
    /\ cmd' = [name |-> "activar", chat |-> chat]
    /\ LET r == ActivarResult(chats_activos, chat)
       IN  /\ chats_activos' = r.chats
           /\ reply' = [chat |-> chat, text |-> r.text]
    /\ UNCHANGED <<fixed, price_history, th, todo, tick, elapsed, running>>

\* Lines 187-196
cmd_desactivar(chat) ==
    /\ DispatcherIdle
    /\ cmd' = [name |-> "desactivar", chat |-> chat]
    /\ LET r == DesactivarResult(chats_activos, chat)
       IN  /\ chats_activos' = r.chats
           /\ reply' = [chat |-> chat, text |-> r.text]
    /\ UNCHANGED <<fixed, price_history, th, todo, tick, elapsed, running>>

\* The handler returns and the dispatcher is free for the next update
HandlerReturn ==
    /\ reply # NoReply
    /\ cmd' = NoCmd
    /\ reply' = NoReply
    /\ th' = [th EXCEPT !["cmd"] = IdleLocals]
    /\ UNCHANGED <<fixed, price_history, chats_activos, todo, tick, elapsed, running>>

-----------------------------------------------------------------------------
(* The scheduler thread: run_schedule (215-221) and enviar_actualizacion (198-213) *)

\* What send_message does for one chat: delivered, or the text of the exception,
\* as the phrases it is made of
SendOutcomes ==
    { <<"ok">>,
      <<"Forbidden", "bot was blocked by the user">>,
      <<"Bad Request", "chat not found">>,
      <<"Forbidden", "user is deactivated">>,
      <<"Timed out">> }

Delivered(o) == o = <<"ok">>

\* phrase in str(e)
Mentions(o, phrase) == \E k \in 1..Len(o) : o[k] = phrase

\* IsPermanent taking every failure for a permanent one
IsPermanent_any(o) == TRUE

\* Line 212
IsPermanent(o) ==
    Mentions(o, "bot was blocked by the user") \/ Mentions(o, "chat not found")

\* Lines 206-213: the registry after the send to chat_id ended with outcome o
AfterSend(chats, chat_id, o) ==
    IF ~Delivered(o) /\ IsPermanent(o) THEN chats \ {chat_id} ELSE chats

\* AfterSendPc of a loop that the first send ends
AfterSendPc_abort(left) == "return"

\* Lines 205-210: an exception of one send is caught inside the loop body, so
\* the loop goes on while chats of the copy are left
AfterSendPc(left) == IF left = {} THEN "return" ELSE "send"

\* What the model records of the tick in progress: the registry line 200 saw
\* (kept until line 205), the quote fetches made, and the outcome of each send
NoTick == [at_start |-> {}, fetches |-> 0, outcomes |-> [c \in {} |-> <<>>]]

\* The chats of list(self.chats_activos): those sent to and those still to do
TickList == todo \cup DOMAIN tick.outcomes

\* schedule.run_pending() in the loop of lines 219-221: the job runs in the
\* scheduler thread itself, when the thread is back in the loop and the
\* interval has passed
JobDue == elapsed >= update_interval

\* ShouldRun of a scheduler that starts the job whenever it is due
ShouldRun_reentrant == JobDue

ShouldRun == th["sched"].pc = "idle" /\ JobDue

\* AfterEmptyTest without the early return
AfterEmptyTest_always(chats) == StartFormat

\* Line 200 on entry to enviar_actualizacion: the next position of the tick
AfterEmptyTest(chats) ==
    IF chats = {} THEN [IdleLocals EXCEPT !.pc = "return"] ELSE StartFormat

enviar_actualizacion ==
    /\ ShouldRun
    /\ running' = running + 1
    /\ tick' = [NoTick EXCEPT !.at_start = chats_activos]
    /\ th' = [th EXCEPT !["sched"] = AfterEmptyTest(chats_activos)]
    /\ todo' = {}
    /\ UNCHANGED <<fixed, price_history, chats_activos, cmd, reply, elapsed>>

\* CopyChats handing out the registry as it was when the tick started
CopyChats_stale ==
    /\ th["sched"].pc = "formatted"
    /\ todo' = tick.at_start
    /\ th' = [th EXCEPT !["sched"] =
                [IdleLocals EXCEPT !.pc = AfterSendPc(tick.at_start)]]
    /\ tick' = [tick EXCEPT !.at_start = {}]
    /\ UNCHANGED <<fixed, price_history, chats_activos, cmd, reply, elapsed, running>>

\* Line 205: list(self.chats_activos), taken once the report is built. The
\* report th["sched"].mensaje is the text of every send of this tick; from here
\* on the model keeps only who is sent to and with what outcome.
CopyChats ==
    /\ th["sched"].pc = "formatted"
    /\ todo' = chats_activos
    /\ th' = [th EXCEPT !["sched"] =
                [IdleLocals EXCEPT !.pc = AfterSendPc(chats_activos)]]
    /\ tick' = [tick EXCEPT !.at_start = {}]
    /\ UNCHANGED <<fixed, price_history, chats_activos, cmd, reply, elapsed, running>>

\* Lines 206-213 for one chat of the copy. The send touches no shared state, so
\* it is one step with the discard that may follow it.
Send ==
    /\ th["sched"].pc = "send"
    /\ \E c \in todo, o \in SendOutcomes :
         /\ chats_activos' = AfterSend(chats_activos, c, o)
         /\ tick' = [tick EXCEPT !.outcomes =
                        [d \in DOMAIN @ \cup {c} |-> IF d = c THEN o ELSE @[d]]]
         /\ todo' = todo \ {c}
         /\ th' = [th EXCEPT !["sched"].pc = AfterSendPc(todo \ {c})]
    /\ UNCHANGED <<fixed, price_history, cmd, reply, elapsed, running>>

\* The job returns to run_pending, which schedules the next run one interval
\* from now
Return ==
    /\ th["sched"].pc = "return"
    /\ th' = [th EXCEPT !["sched"] = IdleLocals]
    /\ running' = running - 1
    /\ elapsed' = 0
    /\ tick' = NoTick
    /\ todo' = {}
    /\ UNCHANGED <<fixed, price_history, chats_activos, cmd, reply>>

\* A minute passes. Two intervals are told apart, no more.
Minute ==
    /\ elapsed < 2 * update_interval
    /\ elapsed' = elapsed + 1
    /\ UNCHANGED <<fixed, price_history, chats_activos, th, cmd, reply, todo, tick,
                   running>>

-----------------------------------------------------------------------------
(* The bot *)

EmptyDict == [b \in {} |-> None]

NoOut == [emoji |-> "none", text |-> <<>>, trend |-> ""]

\* Lines 29-31 and 68-76, then run() with both threads started
Started ==
    /\ price_history = EmptyDict
    /\ chats_activos = {}
    /\ th = [t \in Threads |-> IdleLocals]
    /\ cmd = NoCmd
    /\ reply = NoReply
    /\ todo = {}
    /\ tick = NoTick
    /\ elapsed = 0
    /\ running = 0

\* The bot tracking one instrument
Init ==
    /\ Started
    /\ trading_pairs = SubSeq(ConfiguredPairs, 1, 1)
    /\ t_info = None
    /\ t_out = NoOut

Next ==
    \/ \E t \in Threads : Request(t)
    \/ \E t \in Threads : Store(t)
    \/ \E c \in Chats : cmd_start(c)
    \/ \E c \in Chats : cmd_precio(c)
    \/ cmd_precio_reply
    \/ \E c \in Chats : cmd_activar(c)
    \/ \E c \in Chats : cmd_desactivar(c)
    \/ HandlerReturn
    \/ enviar_actualizacion
    \/ CopyChats
    \/ Send
    \/ Return
    \/ Minute

Spec == Init /\ [][Next]_vars

-----------------------------------------------------------------------------
(* get_price_change_emoji on its own: every snapshot of a range is classified *)

MaxTrendPrice == 10600

\* Previous values: none, zero, values whose 0.01%, 0.1% and 5% are whole, and
\* one whose 0.01% is more than one unit (a change of 1 is below 0.01%)
TrendLasts == {-10000, 0, 1000, 10000, 10500}

TrendInputs ==
    [current_price : (-MaxTrendPrice)..MaxTrendPrice,
     last_price    : {None} \cup {Some(l) : l \in TrendLasts}]

InitTrend ==
    /\ Started
    /\ trading_pairs = SubSeq(ConfiguredPairs, 1, 1)
    /\ t_info \in {Some(i) : i \in TrendInputs}
    /\ t_out = NoOut

\* Line 147: the call on a snapshot get_price returned
Classify ==
    /\ t_out = NoOut
    /\ t_out' = get_price_change_emoji(t_info)
    /\ UNCHANGED <<trading_pairs, t_info, price_history, chats_activos, th, cmd,
                   reply, todo, tick, elapsed, running>>

NextTrend == Classify

SpecTrend == InitTrend /\ [][NextTrend]_vars

-----------------------------------------------------------------------------
(* The bot tracking two instruments *)

InitPairs ==
    /\ Started
    /\ trading_pairs = ConfiguredPairs
    /\ t_info = None
    /\ t_out = NoOut

\* /precio from any chat and the ticks of the scheduler, each fetching the two
\* instruments; chat 1 is the one that subscribes
NextPairs ==
    \/ \E c \in Chats : cmd_precio(c)
    \/ cmd_activar(1)
    \/ \E t \in Threads : Request(t)
    \/ \E t \in Threads : Store(t)
    \/ cmd_precio_reply
    \/ HandlerReturn
    \/ enviar_actualizacion
    \/ CopyChats
    \/ Send
    \/ Return
    \/ Minute

SpecPairs == InitPairs /\ [][NextPairs]_vars

-----------------------------------------------------------------------------
(* The scheduler thread keeps running *)

\* Any step of the thread started at line 232: run_pending starting a due job,
\* or the job's next statement. Every requests.get and send_message call is
\* taken to return.
SchedulerStep ==
    \/ enviar_actualizacion
    \/ Request("sched")
    \/ Store("sched")
    \/ CopyChats
    \/ Send
    \/ Return

\* The thread is never suspended for ever (lines 218-221 loop with a sleep of
\* one second), and time passes
Fairness == WF_vars(SchedulerStep) /\ WF_vars(Minute)

SpecLive == Init /\ [][Next]_vars /\ Fairness

-----------------------------------------------------------------------------
(* Steps, as the properties below recognise them *)

\* Thread t leaves its "request" position: its get_price call got its response
RequestStep(t) == th[t].pc = "request" /\ th'[t] # th[t]

\* The get_price call of thread t ended in failure: the call returned None and
\* the report got the unavailable line
FetchFailed(t) ==
    /\ RequestStep(t)
    /\ th'[t].mensaje = Append(th[t].mensaje, ReportLine(CurrentBook(t), None))

\* Thread t executes lines 47-56
StoreStep(t) == th[t].pc = "store" /\ th'[t] # th[t]

\* The current value stored for book, as an optional
StoredCurrent(h, book) ==
    IF book \in DOMAIN h THEN Some(h[book].current_price) ELSE None

LastLine(m) == m[Len(m)]

\* C1: a get_price call that ends in failure, whatever the kind of failure and
\* whichever thread makes it, leaves price_history as it was.
C1_FailedFetchKeepsHistory ==
    [][\A t \in Threads : FetchFailed(t) => price_history' = price_history]_vars

\* A /precio report shows the instrument as unavailable while the sample of 100
\* stored before the failed call is still the stored current value
C1_Witness ==
    /\ th["cmd"].pc = "formatted"
    /\ LastLine(th["cmd"].mensaje) = ReportLine("btc_mxn", None)
    /\ StoredCurrent(price_history, "btc_mxn") = Some(100)
    /\ th["sched"].pc = "idle"

\* C2: a successful get_price(book) whose read of the stored entry (line 44) is
\* still the stored entry when it writes (no interleaved write) replaces the
\* entry in one step: current is the fetched value, previous is the current
\* stored before the call (absent if none), no other entry changes, and the
\* snapshot returned to the report is the stored one.
C2_SuccessShiftsCurrent ==
    [][\A t \in Threads :
         (StoreStep(t) /\ th[t].last_info = Get(price_history, CurrentBook(t))) =>
            LET book == CurrentBook(t)
            IN  /\ book \in DOMAIN price_history'
                /\ price_history'[book].current_price = th[t].current_price
                /\ price_history'[book].last_price = StoredCurrent(price_history, book)
                /\ \A b \in DOMAIN price_history \ {book} :
                      b \in DOMAIN price_history' /\ price_history'[b] = price_history[b]
                /\ LastLine(th'[t].mensaje) =
                      ReportLine(book, Some(price_history'[book]))]_vars

\* A /precio call has stored 0 over a stored 100: previous is 100, current is 0
C2_Witness ==
    /\ th["cmd"].pc = "formatted"
    /\ th["sched"].pc = "idle"
    /\ "btc_mxn" \in DOMAIN price_history
    /\ price_history["btc_mxn"] = [current_price |-> 0, last_price |-> Some(100)]
    /\ LastLine(th["cmd"].mensaje).body # None
    /\ LastLine(th["cmd"].mensaje).body[1].price = 0

\* C3: whatever the interleaving of the two threads, every write of a snapshot
\* has as previous the current value of the snapshot it replaces (absent when it
\* replaces nothing).
C3_PreviousIsReplacedCurrent ==
    [][\A t \in Threads :
         StoreStep(t) =>
            price_history'[CurrentBook(t)].last_price
                = StoredCurrent(price_history, CurrentBook(t))]_vars

\* A command handler ran /activar in this step
ActivarStep == cmd = NoCmd /\ cmd'.name = "activar"

\* C4: /activar from D puts D in the registry and changes nothing else; the
\* registry grows by 1 when D was absent and by 0 when present; the reply tells
\* the two cases apart; and /activar from D on the registry it leaves changes
\* nothing and replies "already subscribed".
C4_ActivarIdempotent ==
    [][ActivarStep =>
        LET D     == cmd'.chat
            again == ActivarResult(chats_activos', D)
        IN  /\ chats_activos' = chats_activos \cup {D}
            /\ Cardinality(chats_activos') =
                  Cardinality(chats_activos) + (IF D \in chats_activos THEN 0 ELSE 1)
            /\ reply' = [chat |-> D,
                         text |-> IF D \in chats_activos THEN "ya_activadas"
                                                         ELSE "activadas"]
            /\ again.chats = chats_activos'
            /\ Cardinality(again.chats) - Cardinality(chats_activos) =
                  (IF D \in chats_activos THEN 0 ELSE 1)
            /\ again.text = "ya_activadas"]_vars

\* The second /activar of a subscribed chat has been answered
C4_Witness ==
    /\ cmd.name = "activar"
    /\ reply = [chat |-> cmd.chat, text |-> "ya_activadas"]
    /\ cmd.chat \in chats_activos
    /\ Cardinality(chats_activos) = 1

\* A command handler ran /desactivar in this step
DesactivarStep == cmd = NoCmd /\ cmd'.name = "desactivar"

\* C5: /desactivar from a chat outside the registry replies "already
\* unsubscribed" and leaves the registry unchanged; from a chat in it, it
\* removes that chat and no other and replies with the other message.
C5_DesactivarFrame ==
    [][DesactivarStep =>
        LET D == cmd'.chat
        IN  IF D \notin chats_activos
            THEN /\ chats_activos' = chats_activos
                 /\ reply' = [chat |-> D, text |-> "ya_desactivadas"]
            ELSE /\ chats_activos' = chats_activos \ {D}
                 /\ reply' = [chat |-> D, text |-> "desactivadas"]]_vars

\* A subscribed chat has been removed while another stays subscribed
C5_Witness ==
    /\ cmd.name = "desactivar"
    /\ reply = [chat |-> cmd.chat, text |-> "desactivadas"]
    /\ cmd.chat \notin chats_activos
    /\ chats_activos # {}

\* A tick starts in this step
TickStartStep == running' = running + 1

\* The scheduler thread takes a step from position pc
SchedStepFrom(pc) == th["sched"].pc = pc /\ th'["sched"] # th["sched"]

\* C6: a tick that starts with an empty registry goes straight to its end with
\* no quote fetch and no send, and neither its first step nor its last changes
\* price_history or the registry.
C6_EmptyTickDoesNothing ==
    [][/\ (TickStartStep /\ chats_activos = {}) =>
             /\ th'["sched"].pc = "return"
             /\ tick'.fetches = 0
             /\ DOMAIN tick'.outcomes = {}
             /\ todo' = {}
             /\ price_history' = price_history
             /\ chats_activos' = chats_activos
       /\ SchedStepFrom("return") =>
             /\ th'["sched"].pc = "idle"
             /\ price_history' = price_history
             /\ chats_activos' = chats_activos]_vars

\* A tick over an empty registry is at its end, with samples stored by an
\* earlier /precio and nothing fetched or sent
C6_Witness ==
    /\ th["sched"].pc = "return"
    /\ tick.at_start = {}
    /\ tick.fetches = 0
    /\ DOMAIN tick.outcomes = {}
    /\ price_history # EmptyDict

\* The exception texts of a sender that was blocked and of a chat that no
\* longer exists
PermanentRejections ==
    { <<"Forbidden", "bot was blocked by the user">>,
      <<"Bad Request", "chat not found">> }

\* The tick sends to one chat of its copy in this step
SendStep == th["sched"].pc = "send" /\ todo' # todo

\* The chat a send step of the tick attempts
SentChat == CHOOSE c \in todo : c \notin todo'

\* C7: when the send to D is rejected permanently (sender blocked, chat not
\* found), that step of the tick removes D from the registry; the step removes
\* nobody else, a delivered send removes nobody, the loop goes on to the chats
\* of the copy that are left, and the tick reaches its end only with every chat
\* of the copy attempted. Nothing but /activar from a chat itself puts it (back)
\* in the registry.
C7_PermanentRejectionPrunesOnlyD ==
    [][/\ SendStep =>
             LET D == SentChat
                 o == tick'.outcomes[D]
             IN  /\ todo' = todo \ {D}
                 /\ DOMAIN tick'.outcomes = DOMAIN tick.outcomes \cup {D}
                 /\ o \in PermanentRejections => D \notin chats_activos'
                 /\ Delivered(o) => chats_activos' = chats_activos
                 /\ chats_activos \ {D} \subseteq chats_activos'
                 /\ chats_activos' \subseteq chats_activos
                 /\ th'["sched"].pc = IF todo' = {} THEN "return" ELSE "send"
       /\ th'["sched"].pc = "return" => todo' = {}
       /\ \A d \in chats_activos' \ chats_activos : ActivarStep /\ cmd'.chat = d]_vars

\* A tick is at its end: one chat was rejected permanently and is out of the
\* registry, another got its message and is still subscribed
C7_Witness ==
    /\ th["sched"].pc = "return"
    /\ \E d \in DOMAIN tick.outcomes, e \in DOMAIN tick.outcomes :
         /\ tick.outcomes[d] \in PermanentRejections
         /\ d \notin chats_activos
         /\ Delivered(tick.outcomes[e])
         /\ e \in chats_activos

\* C8: a send that fails with anything but a permanent rejection leaves the
\* registry as it is; a chat leaves the registry only by its own /desactivar or
\* by the permanent rejection of a send to that same chat; and the copy a tick
\* sends to is the whole registry at that point, so a chat that is still
\* subscribed is attempted again.
C8_OtherFailuresKeepSubscription ==
    [][/\ SendStep =>
             LET o == tick'.outcomes[SentChat]
             IN  (~Delivered(o) /\ o \notin PermanentRejections) =>
                     chats_activos' = chats_activos
       /\ \A d \in chats_activos \ chats_activos' :
             \/ DesactivarStep /\ cmd'.chat = d
             \/ /\ SendStep
                /\ SentChat = d
                /\ tick'.outcomes[d] \in PermanentRejections
       /\ SchedStepFrom("formatted") => todo' = chats_activos]_vars

\* A send timed out and its chat is still subscribed
C8_Witness ==
    /\ th["sched"].pc \in {"send", "return"}
    /\ \E d \in DOMAIN tick.outcomes :
         /\ tick.outcomes[d] = <<"Timed out">>
         /\ d \in chats_activos

\* C9: at most one execution of enviar_actualizacion is in progress, and one
\* starts only when none is in progress and the scheduler thread is back in its
\* loop, however long ago the job became due.
C9_TicksNeverOverlap ==
    [][/\ running' <= 1
       /\ running' > running => (running = 0 /\ th["sched"].pc = "idle")]_vars

\* A tick is still sending when a whole further interval has passed
C9_Witness ==
    /\ running = 1
    /\ th["sched"].pc = "send"
    /\ elapsed = 2 * update_interval

\* The snapshot has a previous value the change is computed against
HasPrevious(info) == info.last_price # None /\ info.last_price[1] # 0

\* The percent change of a snapshot as the fraction PctNum / PctDen, PctDen > 0
PctNum(info) ==
    IF info.last_price[1] < 0
    THEN 100 * (info.last_price[1] - info.current_price)
    ELSE 100 * (info.current_price - info.last_price[1])

PctDen(info) == IF info.last_price[1] < 0 THEN 0 - info.last_price[1]
                                          ELSE info.last_price[1]

\* C10: for a snapshot with a previous value, the flat arrow is shown exactly
\* when |pct| < 0.1, the strong-up arrow exactly when pct > 5 and the
\* strong-down arrow exactly when pct < -5; so pct of exactly 0.1 or -0.1 gets
\* the ordinary up or down arrow, exactly 5.0 the ordinary up arrow and exactly
\* -5.0 the ordinary down arrow.
C10_TrendBoundariesStrict ==
    (t_out # NoOut /\ HasPrevious(t_info[1])) =>
        LET n == PctNum(t_info[1])
            d == PctDen(t_info[1])
        IN  /\ t_out.emoji = "flat" <=> (10 * n < d /\ 10 * n > 0 - d)
            /\ t_out.emoji = "up_strong" <=> n > 5 * d
            /\ t_out.emoji = "down_strong" <=> n < 0 - 5 * d
            /\ 10 * n = d => t_out.emoji = "up"
            /\ 10 * n = 0 - d => t_out.emoji = "down"
            /\ n = 5 * d => t_out.emoji = "up"
            /\ n = 0 - 5 * d => t_out.emoji = "down"

\* A change of exactly 5.0 percent has been classified with the ordinary arrow
C10_Witness ==
    /\ t_out # NoOut
    /\ HasPrevious(t_info[1])
    /\ PctNum(t_info[1]) = 5 * PctDen(t_info[1])
    /\ t_out.emoji = "up"

-----------------------------------------------------------------------------
(* The first sample and the later ones *)

\* The line thread t adds to its report in this step
AddedLine(t) == LastLine(th'[t].mensaje)

\* C11: the first successful sample of an instrument (nothing stored for it) is
\* classified NEW and rendered with no percentage and no trend marker; every
\* later successful sample of it (something is stored) has a previous value
\* and is never classified NEW.
C11_OnlyFirstSampleIsNew ==
    [][\A t \in Threads :
         StoreStep(t) =>
            LET book == CurrentBook(t)
                body == AddedLine(t).body[1]
            IN  /\ book \notin DOMAIN price_history =>
                      /\ body.emoji = "new"
                      /\ body.text = <<>>
                      /\ body.trend = ""
                /\ book \in DOMAIN price_history =>
                      /\ price_history'[book].last_price # None
                      /\ body.emoji # "new"]_vars

\* C12: a snapshot whose previous value exists and whose percent change is
\* below 0.01 in absolute value, whatever its sign, is shown with the flat
\* arrow, the change "0.00%" with no sign, and no trend marker.
C12_TinyChangeShownAsZero ==
    (t_out # NoOut /\ HasPrevious(t_info[1])
        /\ 100 * Abs(PctNum(t_info[1])) < PctDen(t_info[1])) =>
            t_out = [emoji |-> "flat", text |-> <<"", 0, 0>>, trend |-> ""]

\* A fall of 1 from 10500 (about -0.0095%) has been classified
C12_Witness ==
    /\ t_out # NoOut
    /\ t_info[1] = [current_price |-> 10499, last_price |-> Some(10500)]
    /\ 0 < Abs(PctNum(t_info[1]))
    /\ 100 * Abs(PctNum(t_info[1])) < PctDen(t_info[1])

\* C13: every sample in price_history has a value above 0, as a current value
\* and as a previous value: an unavailable quote is an absent entry or an absent
\* previous value, never a zero.
C13_StoredValuesPositive ==
    \A b \in DOMAIN price_history :
        /\ price_history[b].current_price > 0
        /\ price_history[b].last_price # None => price_history[b].last_price[1] > 0

\* Thread t executes one step of format_price_message (lines 140-159)
FormatStep(t) == RequestStep(t) \/ StoreStep(t)

\* The reports of the two threads are both built
BothFormatted == \A t \in Threads : th[t].pc \in {"formatted", "replied"}

\* C14 as stated: no step of format_price_message changes price_history or the
\* registry, and two reports built from the same fetched prices show the same
\* price, arrow and percentage for every instrument.
C14_RenderingIsPure ==
    /\ [][\A t \in Threads :
            FormatStep(t) => /\ price_history' = price_history
                             /\ chats_activos' = chats_activos]_vars
    /\ [](BothFormatted =>
            \A k \in 1..Len(trading_pairs) :
               LET a == th["cmd"].mensaje[k].body
                   b == th["sched"].mensaje[k].body
               IN  (a # None /\ b # None /\ a[1].price = b[1].price) => a = b)

\* C14: building a report never changes the registry, and changes price_history
\* only in the step that stores a fetched price, and there only the entry of
\* the instrument fetched; the line added for it shows the price just stored
\* and the arrow, percentage and trend marker of the snapshot just stored.
C14_RenderingShowsWhatItStores ==
    [][\A t \in Threads :
         FormatStep(t) =>
            /\ chats_activos' = chats_activos
            /\ RequestStep(t) => price_history' = price_history
            /\ StoreStep(t) =>
                 LET book   == CurrentBook(t)
                     stored == price_history'[book]
                     c      == get_price_change_emoji(Some(stored))
                 IN  /\ \A b \in DOMAIN price_history \ {book} :
                           b \in DOMAIN price_history' /\ price_history'[b] = price_history[b]
                     /\ DOMAIN price_history' = DOMAIN price_history \cup {book}
                     /\ AddedLine(t).pair = book
                     /\ AddedLine(t).body =
                          Some([price |-> stored.current_price, emoji |-> c.emoji,
                                trend |-> c.trend, text |-> c.text])]_vars

\* Two reports built from the same fetched price 100 differ: /precio showed it
\* as the first sample, the tick that followed as an unchanged price
C14_Witness ==
    /\ th["cmd"].pc = "replied"
    /\ th["sched"].pc = "formatted"
    /\ th["cmd"].mensaje[1].body # None /\ th["sched"].mensaje[1].body # None
    /\ th["cmd"].mensaje[1].body[1].price = 100
    /\ th["cmd"].mensaje[1].body[1].emoji = "new"
    /\ th["sched"].mensaje[1].body[1].price = 100
    /\ th["sched"].mensaje[1].body[1].emoji = "flat"
    /\ price_history["btc_mxn"] = [current_price |-> 100, last_price |-> Some(100)]

\* The get_price call of thread t returned None in this step: the thread does
\* not go on to lines 47-56
ReturnedNone(t) == RequestStep(t) /\ th'[t].pc # "store"

\* C15: when the fetch of an instrument fails, the line added to the report for
\* it is the unavailable line, with no price, arrow or percentage, whether or
\* not a sample of the instrument is stored; the lines already in the report
\* stay as they are.
C15_FailedFetchShownUnavailable ==
    [][\A t \in Threads :
         ReturnedNone(t) =>
            /\ Len(th'[t].mensaje) = Len(th[t].mensaje) + 1
            /\ SubSeq(th'[t].mensaje, 1, Len(th[t].mensaje)) = th[t].mensaje
            /\ AddedLine(t).pair = CurrentBook(t)
            /\ AddedLine(t).body = None]_vars

\* The report of a tick shows the instrument as unavailable while a sample of
\* 100 with a previous value is stored for it
C15_Witness ==
    /\ th["sched"].pc = "formatted"
    /\ LastLine(th["sched"].mensaje).body = None
    /\ "btc_mxn" \in DOMAIN price_history
    /\ price_history["btc_mxn"].current_price = 100
    /\ price_history["btc_mxn"].last_price # None

\* C16: a get_price(book) call, whether it succeeds or fails and whatever the
\* other thread does, changes no entry of price_history but the one of book;
\* and in a report a failed fetch of an instrument is followed by the fetch of
\* the next configured instrument, so that a finished report has one line per
\* configured instrument, in the configured order.
C16_InstrumentsIndependent ==
    /\ [][\A t \in Threads :
            /\ FormatStep(t) =>
                  \A b \in Books \ {CurrentBook(t)} :
                     Get(price_history', b) = Get(price_history, b)
            /\ (ReturnedNone(t) /\ th[t].i < Len(trading_pairs)) =>
                  /\ th'[t].pc = "request"
                  /\ th'[t].i = th[t].i + 1]_vars
    /\ [](\A t \in Threads :
            th[t].pc = "formatted" =>
               /\ Len(th[t].mensaje) = Len(trading_pairs)
               /\ \A k \in 1..Len(trading_pairs) :
                     th[t].mensaje[k].pair = trading_pairs[k])

\* A /precio report whose first instrument failed and whose second one was
\* fetched and stored, the stored sample of the first one being untouched
C16_Witness ==
    /\ Len(trading_pairs) = 2
    /\ th["cmd"].pc = "formatted"
    /\ th["cmd"].mensaje[1] = [pair |-> "btc_mxn", body |-> None]
    /\ th["cmd"].mensaje[2].pair = "eth_mxn"
    /\ th["cmd"].mensaje[2].body # None
    /\ th["cmd"].mensaje[2].body[1].price = 100
    /\ Get(price_history, "btc_mxn") = Some([current_price |-> 100, last_price |-> None])
    /\ Get(price_history, "eth_mxn") = Some([current_price |-> 100, last_price |-> Some(0)])

-----------------------------------------------------------------------------
(* The destinations of a tick *)

\* The scheduler executes line 205
CopyStep == th["sched"].pc = "formatted" /\ th'["sched"].pc # "formatted"

\* From the copy on, the tick attempts each chat of its list once, and no
\* command changes the list: every send takes one chat out of those still to do
\* and records its outcome, and the loop ends when none is left.
FanOutAttemptsListOnce ==
    /\ CopyStep => DOMAIN tick'.outcomes = {}
    /\ th["sched"].pc = "send" => TickList' = TickList
    /\ SendStep => /\ SentChat \notin DOMAIN tick.outcomes
                   /\ todo' = todo \ {SentChat}
                   /\ DOMAIN tick'.outcomes = DOMAIN tick.outcomes \cup {SentChat}
    /\ (th["sched"].pc = "send" /\ th'["sched"].pc = "return") => todo' = {}

\* C17 as stated: the chats a tick attempts are exactly those in the registry
\* when the tick started, each once, whatever commands run during the fetches
\* or during the sends.
C17_DeliversToRegistryAtTickStart ==
    [][/\ CopyStep => todo' = tick.at_start
       /\ FanOutAttemptsListOnce]_vars

\* C17: the chats a tick attempts are exactly those in the registry when the
\* report is built and the copy of line 205 is taken, each once; a command
\* that runs during the sends does not change them, one that runs during the
\* fetches does.
C17_DeliversToRegistryAtCopy ==
    [][/\ CopyStep => todo' = chats_activos
       /\ FanOutAttemptsListOnce]_vars

\* Chat 1 has been sent the report, chat 2 is still to be sent it although its
\* /desactivar has taken it out of the registry during the sends
C17_Witness ==
    /\ th["sched"].pc = "send"
    /\ DOMAIN tick.outcomes = {1}
    /\ todo = {2}
    /\ chats_activos = {1}
    /\ cmd = [name |-> "desactivar", chat |-> 2]

-----------------------------------------------------------------------------
(* /precio *)

\* The dispatcher executes one step of a /precio command
PrecioStep ==
    /\ cmd.name = "precio" \/ cmd'.name = "precio"
    /\ cmd' # cmd \/ th'["cmd"] # th["cmd"] \/ reply' # reply

\* C18: no step of a /precio command changes the registry or sends anything on
\* behalf of a tick; the one message it sends goes to the chat that asked, and
\* it is sent once every configured instrument has been fetched and has its
\* line in the report, in the configured order.
C18_PrecioRepliesToRequesterOnly ==
    [][PrecioStep =>
         /\ chats_activos' = chats_activos
         /\ todo' = todo /\ tick' = tick
         /\ reply' # reply =>
              \/ /\ reply = NoReply
                 /\ reply' = [chat |-> cmd.chat, text |-> "precios"]
                 /\ Len(th["cmd"].mensaje) = Len(trading_pairs)
                 /\ \A k \in 1..Len(trading_pairs) :
                       th["cmd"].mensaje[k].pair = trading_pairs[k]
              \/ reply' = NoReply /\ cmd' = NoCmd]_vars

\* Chat 2, not subscribed, has been sent the report of its /precio with the two
\* instruments in it, while chat 1 is subscribed and no tick is running
C18_Witness ==
    /\ cmd = [name |-> "precio", chat |-> 2]
    /\ reply = [chat |-> 2, text |-> "precios"]
    /\ Len(th["cmd"].mensaje) = 2
    /\ th["cmd"].mensaje[2].body # None
    /\ chats_activos = {1}
    /\ tick = NoTick

-----------------------------------------------------------------------------
(* Progress of the scheduler *)

\* C19: whatever fetches and sends fail, a tick that has started finishes, and
\* ticks start again and again; a tick does not finish before every chat of
\* its list has been attempted, so a chat that is in the registry when a tick
\* starts is attempted in that tick unless it leaves the registry meanwhile.
C19_SchedulerKeepsRunning ==
    /\ (th["sched"].pc # "idle") ~> (th["sched"].pc = "idle")
    /\ []<>(running = 1)
    /\ [](th["sched"].pc = "return" => todo = {})
    /\ \A d \in Chats :
          (th["sched"].pc = "request" /\ d \in tick.at_start)
             ~> (d \in DOMAIN tick.outcomes \/ d \notin chats_activos)

\* A tick reaches its end after its fetch failed (nothing was ever stored), one
\* send timed out and another was rejected for good; the chat whose send timed
\* out is still subscribed
C19_Witness ==
    /\ th["sched"].pc = "return"
    /\ tick.fetches = 1
    /\ price_history = EmptyDict
    /\ \E d, e \in DOMAIN tick.outcomes :
          /\ tick.outcomes[d] = <<"Timed out">>
          /\ d \in chats_activos
          /\ tick.outcomes[e] \in PermanentRejections
          /\ e \notin chats_activos

-----------------------------------------------------------------------------
(* The baseline of a broadcast *)

\* C20: the two paths share one price_history. A fetch stored by /precio
\* becomes the stored current value; a tick's get_price reads as its baseline
\* the entry stored at that moment, whichever path stored it; and, no other
\* write coming in before the tick stores, the tick's snapshot has that value
\* as previous and its line shows the change computed against it.
C20_BaselineSharedByBothPaths ==
    [][/\ StoreStep("cmd") =>
             StoredCurrent(price_history', CurrentBook("cmd"))
                = Some(th["cmd"].current_price)
       /\ (RequestStep("sched") /\ ~ReturnedNone("sched")) =>
             th'["sched"].last_info = Get(price_history, CurrentBook("sched"))
       /\ (StoreStep("sched")
             /\ th["sched"].last_info = Get(price_history, CurrentBook("sched"))) =>
             LET book     == CurrentBook("sched")
                 baseline == StoredCurrent(price_history, book)
                 c == get_price_change_emoji(
                         Some([current_price |-> th["sched"].current_price,
                               last_price    |-> baseline]))
             IN  /\ price_history'[book].last_price = baseline
                 /\ AddedLine("sched").body # None
                 /\ AddedLine("sched").body[1].emoji = c.emoji
                 /\ AddedLine("sched").body[1].text = c.text]_vars

\* A /precio has just answered with the price 100 it fetched; the tick that ran
\* after it fetched 0 and shows a fall of 100%: its baseline is the 100 of the
\* /precio
C20_Witness ==
    /\ cmd.name = "precio"
    /\ th["cmd"].pc = "replied"
    /\ th["cmd"].mensaje[1].body # None
    /\ th["cmd"].mensaje[1].body[1].price = 100
    /\ th["sched"].pc = "formatted"
    /\ th["sched"].mensaje[1].body # None
    /\ th["sched"].mensaje[1].body[1].price = 0
    /\ th["sched"].mensaje[1].body[1].emoji = "down_strong"
    /\ th["sched"].mensaje[1].body[1].text = <<"-", 100, 0>>
    /\ price_history["btc_mxn"] = [current_price |-> 0, last_price |-> Some(100)]

=============================================================================
